---- MODULE Spec2Model ----
(***************************************************************************)
(* Model of MidiConverter.processMidi (src/main.js, lines 80-233): the     *)
(* allocation of the notes of a multi-track MIDI file onto the three       *)
(* output tracks Main Theme, Chord, Base.                                  *)
(*                                                                         *)
(* Time is counted in microseconds, so that the tolerance 1e-6 s is 1 and  *)
(* the truncation floor 0.01 s is 10000; the floating-point sums and       *)
(* differences of the source are exact on this grid.                       *)
(*                                                                         *)
(* JavaScript objects are modelled by references into `heap`: the same     *)
(* note object is pushed on trackState[idx] and on trackMap.get(name), and *)
(* an in-place shortening of an object is seen through both.               *)
(***************************************************************************)
EXTENDS Integers, Sequences, FiniteSets, TLC

\* ------------------------------------------------------------------ bounds
\* The most notes an input file holds (four notes are the fewest that make
\* the allocator drop one) and the number of its source tracks.
MaxNotes == 4
NumOrig == 2

\* The values the notes of an input file are drawn from: <<start, duration>>
\* in microseconds, MIDI note numbers, velocities.  The spans nest (0-2 s
\* around 1-1.995 s), cross (0-2 s and 1-3 s), start within the truncation
\* floor of each other (0 and 0.005 s) and meet within the tolerance
\* (1.000001 s and 1 s).
Spans == {<<0, 2000000>>, <<5000, 995001>>, <<1000000, 995000>>,
          <<1000000, 2000000>>}
Pitches == {60, 72}
Velocities == {100}

\* ------------------------------------------------------- program constants
Eps == 1
MinDur == 10000
TRACK_NAMES == <<"Main Theme", "Chord", "Base">>

\* pc, heap, allNotes, pos, origTrackToTarget, trackState and trackMap are the
\* program's; input (the notes as collected), log (what became of each note)
\* and last (the last step and the state it started from) record the run.
\* midi is the file processMidi was called with, in the runs that start
\* from a given file (InitGiven); elsewhere the file is chosen at the call
\* and not kept.
VARIABLES pc, heap, allNotes, pos, origTrackToTarget, trackState,
          trackMap, input, log, last, midi

vars == <<pc, heap, allNotes, pos, origTrackToTarget, trackState,
          trackMap, input, log, last, midi>>

\* ----------------------------------------------------------------- helpers
Min(S) == CHOOSE x \in S : \A y \in S : x <= y
Max(S) == CHOOSE x \in S : \A y \in S : x >= y

\* Array.prototype.indexOf, 0-based.
IndexOf(seq, x) == (CHOOSE i \in 1..Len(seq) : seq[i] = x) - 1

\* The note objects a list of references stands for.
Deref(h, refs) == [k \in 1..Len(refs) |-> h[refs[k]]]

\* Array.prototype.filter on a sequence, keeping the positions in Keep.
RECURSIVE FilterPos(_, _, _)
FilterPos(seq, Keep, i) ==
  IF i > Len(seq) THEN <<>>
  ELSE (IF i \in Keep THEN <<seq[i]>> ELSE <<>>) \o FilterPos(seq, Keep, i + 1)

\* The input file: a note of a source track as the loader hands it over.
InNote == {[midi |-> p, time |-> s[1], duration |-> s[2], velocity |-> v] :
             p \in Pitches, s \in Spans, v \in Velocities}

\* midi.tracks: NumOrig tracks, each a list of notes, MaxNotes notes in all.
\* A file is a flat list of notes and the positions where the tracks end.
Cuts(n) == {c \in [1..NumOrig -> 0..n] :
              /\ c[NumOrig] = n
              /\ \A t \in 1..(NumOrig - 1) : c[t] <= c[t + 1]}

MidiOf(flat, c) ==
  [t \in 1..NumOrig |->
     [notes |-> SubSeq(flat, (IF t = 1 THEN 0 ELSE c[t - 1]) + 1, c[t])]]

\* ------------------------------------------------- lines 88-97: allNotes
\* flatMap: the notes of track 0, then of track 1, ..., each tagged with
\* the index of its track and given its end time.
RECURSIVE FlatMap(_, _)
FlatMap(tracks, t) ==
  IF t > Len(tracks) THEN <<>>
  ELSE [k \in 1..Len(tracks[t].notes) |->
          [midi |-> tracks[t].notes[k].midi,
           time |-> tracks[t].notes[k].time,
           duration |-> tracks[t].notes[k].duration,
           velocity |-> tracks[t].notes[k].velocity,
           endTime |-> tracks[t].notes[k].time + tracks[t].notes[k].duration,
           origTrack |-> t - 1]]
       \o FlatMap(tracks, t + 1)

\* The comparator with the times exchanged: latest note first.
CompareNotesDescending(a, b) ==
  IF b.time - a.time # 0 THEN b.time - a.time ELSE b.midi - a.midi

\* The comparator with the pitches exchanged: lower pitch first.
CompareNotesPitchAscending(a, b) ==
  IF a.time - b.time # 0 THEN a.time - b.time ELSE a.midi - b.midi

\* The comparator without its tie-break on pitch.
CompareNotesTimeOnly(a, b) == a.time - b.time

\* The comparator (a, b) => a.time - b.time || b.midi - a.midi.
CompareNotes(a, b) ==
  IF a.time - b.time # 0 THEN a.time - b.time ELSE b.midi - a.midi

\* Array.prototype.sort is stable: an element goes after every element
\* that does not compare greater, in the order the elements had.
RECURSIVE InsertNote(_, _, _)
InsertNote(sorted, x, i) ==
  IF i > Len(sorted) THEN Append(sorted, x)
  ELSE IF CompareNotes(sorted[i], x) > 0
    THEN SubSeq(sorted, 1, i - 1) \o <<x>> \o SubSeq(sorted, i, Len(sorted))
  ELSE InsertNote(sorted, x, i + 1)

RECURSIVE SortNotesFrom(_, _, _)
SortNotesFrom(sorted, seq, i) ==
  IF i > Len(seq) THEN sorted
  ELSE SortNotesFrom(InsertNote(sorted, seq[i], 1), seq, i + 1)

\* The sort left out: the notes stay in flatMap order.
SortNotesLeftOut(seq) == seq

SortNotes(seq) == SortNotesFrom(<<>>, seq, 1)

CollectNotes(m) == SortNotes(FlatMap(m, 1))

\* ------------------------------------------------------------ initial state
EmptyLast ==
  [outcome |-> "none", ref |-> 0, placed |-> 0, idx |-> -1, preferIdx |-> -1,
   tryOrder |-> <<>>, shortened |-> 0,
   pre |-> [heap |-> <<>>, trackState |-> <<>>, trackMap |-> <<>>,
            origTrackToTarget |-> <<>>]]

Init ==
  /\ pc = "start"
  /\ heap = <<>>
  /\ allNotes = <<>>
  /\ input = <<>>
  /\ pos = 0
  /\ origTrackToTarget = <<>>
  /\ trackState = <<>>
  /\ trackMap = <<>>
  /\ log = <<>>
  /\ last = EmptyLast
  /\ midi = <<>>

\* Lines 82-103: processMidi is called with the loaded file; trackMap,
\* allNotes, origTrackToTarget and trackState are set up.
Collect ==
  /\ pc = "start"
  /\ \E n \in 0..MaxNotes : \E flat \in [1..n -> InNote] : \E c \in Cuts(n) :
       heap' = CollectNotes(MidiOf(flat, c))
  /\ allNotes' = [k \in 1..Len(heap') |-> k]
  /\ input' = heap'
  /\ trackMap' = [k \in 1..Len(TRACK_NAMES) |->
                    [name |-> TRACK_NAMES[k], notes |-> <<>>]]
  /\ trackState' = [k \in 1..Len(TRACK_NAMES) |-> <<>>]
  /\ origTrackToTarget' = <<>>
  /\ pos' = 1
  /\ pc' = "loop"
  /\ UNCHANGED <<log, last, midi>>

\* ------------------------------------------- lines 104-205: one note
\* The allocator's data while it works: the note objects, the two per-track
\* structures and the origin-affinity map.
AllocState == [heap |-> heap, trackState |-> trackState,
               trackMap |-> trackMap, origTrackToTarget |-> origTrackToTarget]

\* The overlap test with n.time written where n.endTime is meant.
OverlapsStartOnly(note, n) ==
  ~(note.endTime <= n.time + Eps \/ note.time >= n.time - Eps)

\* The overlap test without the tolerance.
OverlapsStrict(note, n) ==
  ~(note.endTime <= n.time \/ note.time >= n.endTime)

\* Lines 126 and 144: the overlap test of the incoming note against n.
Overlaps(note, n) ==
  ~(note.endTime <= n.time + Eps \/ note.time >= n.endTime - Eps)

\* find() replaced by a test of the first note of the track only.
FindOverlapFirstOnly(h, notesArr, note) ==
  IF Len(notesArr) >= 1 /\ Overlaps(note, h[notesArr[1]]) THEN 1 ELSE 0

\* notesArr.find(...): the position of the first note of notesArr that
\* overlaps note, 0 when there is none (undefined).
FindOverlap(h, notesArr, note) ==
  LET hits == {k \in 1..Len(notesArr) : Overlaps(note, h[notesArr[k]])}
  IN IF hits = {} THEN 0 ELSE Min(hits)

\* Line 107: the affinity of the note's origin track, -1 for null.
PreferIdx(m, note) ==
  IF note.origTrack \in DOMAIN m THEN m[note.origTrack] ELSE -1

\* Line 115: the notes of the whole input that start exactly when note does.
NotesAtTime(all, note) == {k \in 1..Len(all) : all[k].time = note.time}

\* Line 117 as it would read with a single map(n=>n.midi): the lowest pitch
\* among the notes of the same start.
IsLowestAtTimeOfPitches(all, note) ==
  note.midi = Min({all[k].midi : k \in NotesAtTime(all, note)})

\* Line 117: Math.min over notesAtTime.map(n=>n.time).map(n=>n.midi) is a
\* minimum of undefined values, NaN, and no pitch is === NaN.
IsLowestAtTime(all, note) == FALSE

\* The pitch suggestion with Math.min where line 116 has Math.max.
IdxByPitchMin(all, note) ==
  IF note.midi = Min({all[k].midi : k \in NotesAtTime(all, note)}) THEN 0
  ELSE IF IsLowestAtTime(all, note) THEN 2
  ELSE 1

\* Lines 114-117: the pitch suggestion for an origin without affinity.
IdxByPitch(all, note) ==
  IF note.midi = Max({all[k].midi : k \in NotesAtTime(all, note)}) THEN 0
  ELSE IF IsLowestAtTime(all, note) THEN 2
  ELSE 1

\* Exchange two elements of an array (0-based positions).
Swap(seq, i, j) ==
  [k \in 1..Len(seq) |->
     IF k = i + 1 THEN seq[j + 1] ELSE IF k = j + 1 THEN seq[i + 1] ELSE seq[k]]

\* Lines 108-119: the order in which the tracks are tried.
TryOrder(all, m, note) ==
  LET preferIdx == PreferIdx(m, note) IN
  IF preferIdx # -1
    THEN <<TRACK_NAMES[preferIdx + 1]>>
         \o FilterPos(TRACK_NAMES, (1..Len(TRACK_NAMES)) \ {preferIdx + 1}, 1)
    ELSE LET idxByPitch == IdxByPitch(all, note) IN
         IF idxByPitch # 0 THEN Swap(TRACK_NAMES, 0, idxByPitch)
         ELSE TRACK_NAMES

\* notesArr.push(x) without the push on the list of trackMap.
PushStateOnly(st, idx, trackName, ref) ==
  [st EXCEPT !.trackState[idx + 1] = Append(@, ref)]

\* notesArr.push(x); trackMap.get(trackName).push(x)
Push(st, idx, trackName, ref) ==
  [st EXCEPT
     !.trackState[idx + 1] = Append(@, ref),
     !.trackMap = [k \in 1..Len(@) |->
                     IF @[k].name = trackName
                       THEN [@[k] EXCEPT !.notes = Append(@, ref)]
                       ELSE @[k]]]

\* The affinity recorded on every placement, without the has() test.
SetAffinityAlways(st, origTrack, idx) ==
  [st EXCEPT !.origTrackToTarget =
     [o \in (DOMAIN @) \cup {origTrack} |-> IF o = origTrack THEN idx ELSE @[o]]]

\* Lines 151-153: the affinity is recorded on the first placement only.
SetAffinity(st, origTrack, idx) ==
  IF origTrack \in DOMAIN st.origTrackToTarget THEN st
  ELSE [st EXCEPT !.origTrackToTarget = @ @@ (origTrack :> idx)]

\* Line 167: the floor of a truncated incoming note.
NewDurationOk(newDuration) == newDuration > MinDur

\* The floor of line 184 as a test for a positive duration.
OverlapNewDurationPositive(overlapNewDuration) == overlapNewDuration > 0

\* Line 184: the floor of a shortened existing note.
OverlapNewDurationOk(overlapNewDuration) == overlapNewDuration > MinDur

\* Line 164: the incoming note starts before the overlapping one.
TruncateNewCond(note, overlap) ==
  note.time < overlap.time /\ note.endTime > overlap.time + Eps

\* The test of line 182 without its second comparison: the overlapping
\* note need not end after the incoming one.
TruncateOldCondNoSpan(note, overlap) ==
  /\ overlap.endTime > note.time + Eps
  /\ overlap.time < note.time - Eps

\* Line 182: the overlapping note starts before the incoming one and ends
\* after it.
TruncateOldCond(note, overlap) ==
  /\ overlap.endTime > note.time + Eps
  /\ overlap.endTime > note.endTime + Eps
  /\ overlap.time < note.time - Eps

\* Lines 185-186 with the end time left as it was.
ShortenExistingKeepEnd(h, oref, overlapNewDuration) ==
  [h EXCEPT ![oref].duration = overlapNewDuration]

\* Lines 185-186 with the duration left as it was.
ShortenExistingKeepDuration(h, oref, overlapNewDuration) ==
  [h EXCEPT ![oref].endTime = h[oref].time + overlapNewDuration]

\* Lines 185-186: the overlapping note object is shortened in place.
ShortenExisting(h, oref, overlapNewDuration) ==
  [h EXCEPT ![oref].duration = overlapNewDuration,
            ![oref].endTime = h[oref].time + overlapNewDuration]

\* The test of line 141 with || where the source has &&.
SkipTrackAnyPreferred(preferIdx, idx) == preferIdx # -1 \/ idx = preferIdx

\* The test of line 141 left out: the preferred track is scanned again.
SkipTrackNever(preferIdx, idx) == FALSE

\* Line 141: the preferred track is not tried again in the full scan.
SkipTrack(preferIdx, idx) == preferIdx # -1 /\ idx = preferIdx

\* Lines 137-200: the full scan of tryOrder from position i (1-based).
RECURSIVE Scan(_, _, _, _, _)
Scan(st, ref, tryOrder, preferIdx, i) ==
  IF i > Len(tryOrder)
    THEN [st |-> st, outcome |-> "drop", idx |-> -1, placed |-> 0,
          shortened |-> 0]
  ELSE
    LET trackName == tryOrder[i]
        idx == IndexOf(TRACK_NAMES, trackName)
        note == st.heap[ref]
        notesArr == st.trackState[idx + 1]
        k == FindOverlap(st.heap, notesArr, note)
    IN
    IF SkipTrack(preferIdx, idx) THEN Scan(st, ref, tryOrder, preferIdx, i + 1)
    ELSE IF k = 0
      THEN [st |-> SetAffinity(Push(st, idx, trackName, ref),
                               note.origTrack, idx),
            outcome |-> "verbatim", idx |-> idx, placed |-> ref,
            shortened |-> 0]
    ELSE
      LET overlap == st.heap[notesArr[k]]
          newDuration == overlap.time - note.time
          overlapNewDuration == note.time - overlap.time
      IN
      IF TruncateNewCond(note, overlap) /\ NewDurationOk(newDuration)
        THEN LET truncated == [note EXCEPT !.duration = newDuration,
                                           !.endTime = overlap.time]
                 tref == Len(st.heap) + 1
                 st1 == [st EXCEPT !.heap = Append(@, truncated)]
             IN [st |-> SetAffinity(Push(st1, idx, trackName, tref),
                                    note.origTrack, idx),
                 outcome |-> "truncNew", idx |-> idx, placed |-> tref,
                 shortened |-> 0]
      ELSE IF TruncateOldCond(note, overlap)
              /\ OverlapNewDurationOk(overlapNewDuration)
        THEN LET st1 == [st EXCEPT
                           !.heap = ShortenExisting(@, notesArr[k],
                                                    overlapNewDuration)]
             IN [st |-> SetAffinity(Push(st1, idx, trackName, ref),
                                    note.origTrack, idx),
                 outcome |-> "truncOld", idx |-> idx, placed |-> ref,
                 shortened |-> notesArr[k]]
      ELSE Scan(st, ref, tryOrder, preferIdx, i + 1)

\* The loop body without `assigned = true` on the fast path: the full scan
\* runs after the note has been pushed.
ProcessNoteFallThrough(st, all, ref) ==
  LET note == st.heap[ref]
      preferIdx == PreferIdx(st.origTrackToTarget, note)
      tryOrder == TryOrder(all, st.origTrackToTarget, note)
      fast == preferIdx # -1
              /\ FindOverlap(st.heap, st.trackState[preferIdx + 1], note) = 0
  IN IF fast
       THEN Scan(Push(st, preferIdx, TRACK_NAMES[preferIdx + 1], ref), ref,
                 tryOrder, preferIdx, 1)
       ELSE Scan(st, ref, tryOrder, preferIdx, 1)

\* Lines 105-204: the body of the loop for the note object ref.
ProcessNote(st, all, ref) ==
  LET note == st.heap[ref]
      preferIdx == PreferIdx(st.origTrackToTarget, note)
      tryOrder == TryOrder(all, st.origTrackToTarget, note)
      fast == preferIdx # -1
              /\ FindOverlap(st.heap, st.trackState[preferIdx + 1], note) = 0
  IN IF fast
       THEN [st |-> Push(st, preferIdx, TRACK_NAMES[preferIdx + 1], ref),
             outcome |-> "fast", idx |-> preferIdx, placed |-> ref,
             shortened |-> 0]
       ELSE Scan(st, ref, tryOrder, preferIdx, 1)

\* The loop with its bound written one short: the last note is never
\* taken up.
StepOneShort ==
  /\ pc = "loop"
  /\ pos < Len(allNotes)
  /\ \E all \in {Deref(heap, allNotes)} :
     \E r \in {ProcessNote(AllocState, all, allNotes[pos])} :
        /\ heap' = r.st.heap
        /\ trackState' = r.st.trackState
        /\ trackMap' = r.st.trackMap
        /\ origTrackToTarget' = r.st.origTrackToTarget
        /\ last' = [outcome |-> r.outcome, ref |-> allNotes[pos],
                    placed |-> r.placed, idx |-> r.idx,
                    preferIdx |-> PreferIdx(origTrackToTarget,
                                            heap[allNotes[pos]]),
                    tryOrder |-> TryOrder(all, origTrackToTarget,
                                          heap[allNotes[pos]]),
                    shortened |-> r.shortened,
                    pre |-> AllocState]
        /\ log' = Append(log, [outcome |-> r.outcome, idx |-> r.idx,
                                placed |-> r.placed])
  /\ pos' = pos + 1
  /\ UNCHANGED <<pc, allNotes, input, midi>>

\* One iteration of `for (const note of allNotes)`.
Step ==
  /\ pc = "loop"
  /\ pos <= Len(allNotes)
  /\ \E all \in {Deref(heap, allNotes)} :
     \E r \in {ProcessNote(AllocState, all, allNotes[pos])} :
        /\ heap' = r.st.heap
        /\ trackState' = r.st.trackState
        /\ trackMap' = r.st.trackMap
        /\ origTrackToTarget' = r.st.origTrackToTarget
        /\ last' = [outcome |-> r.outcome, ref |-> allNotes[pos],
                    placed |-> r.placed, idx |-> r.idx,
                    preferIdx |-> PreferIdx(origTrackToTarget,
                                            heap[allNotes[pos]]),
                    tryOrder |-> TryOrder(all, origTrackToTarget,
                                          heap[allNotes[pos]]),
                    shortened |-> r.shortened,
                    pre |-> AllocState]
        /\ log' = Append(log, [outcome |-> r.outcome, idx |-> r.idx,
                                placed |-> r.placed])
  /\ pos' = pos + 1
  /\ UNCHANGED <<pc, allNotes, input, midi>>

\* --------------------------------------------- lines 207-210: final sort
\* The comparator (a, b) => a.time - b.time of the per-track sort.
CompareTime(a, b) == a.time - b.time

\* notes.sort(CompareTime) on a list of note objects; the sort is stable.
SortTrack(h, notes) ==
  LET n == Len(notes)
      Rank(i) == 1 + Cardinality({j \in 1..n :
                        \/ CompareTime(h[notes[j]], h[notes[i]]) < 0
                        \/ CompareTime(h[notes[j]], h[notes[i]]) = 0 /\ j < i})
  IN [k \in 1..n |-> notes[CHOOSE i \in 1..n : Rank(i) = k]]

\* The loop is over: every list of trackMap is sorted and trackMap returned.
Finalize ==
  /\ pc = "loop"
  /\ pos > Len(allNotes)
  /\ trackMap' = [k \in 1..Len(trackMap) |->
                    [trackMap[k] EXCEPT !.notes = SortTrack(heap, @)]]
  /\ pc' = "done"
  /\ last' = [EmptyLast EXCEPT !.outcome = "sort", !.pre = AllocState]
  /\ UNCHANGED <<heap, allNotes, pos, origTrackToTarget, trackState,
                 input, log, midi>>

Next == Collect \/ Step \/ Finalize

Spec == Init /\ [][Next]_vars

\* ------------------------------------------- runs on other sets of files
\* Lines 82-103 when processMidi is called with the file m.
Called(m) ==
  /\ pc = "start"
  /\ heap' = CollectNotes(m)
  /\ allNotes' = [k \in 1..Len(heap') |-> k]
  /\ input' = heap'
  /\ trackMap' = [k \in 1..Len(TRACK_NAMES) |->
                    [name |-> TRACK_NAMES[k], notes |-> <<>>]]
  /\ trackState' = [k \in 1..Len(TRACK_NAMES) |-> <<>>]
  /\ origTrackToTarget' = <<>>
  /\ pos' = 1
  /\ pc' = "loop"
  /\ UNCHANGED <<log, last, midi>>

\* The files of a single source track, of at most OneTrackNotes notes.
OneTrackNotes == 4

CollectOneTrack ==
  \E n \in 0..OneTrackNotes : \E flat \in [1..n -> InNote] :
    Called(<<[notes |-> flat]>>)

NextOneTrack == CollectOneTrack \/ Step \/ Finalize

\* processMidi is synchronous and single-threaded: once it has been called
\* it runs until it returns, so the loop and the final sort are not put off
\* for ever.  Whether it is called at all is the caller's business.
FairSpec == Init /\ [][NextOneTrack]_vars /\ WF_vars(Step \/ Finalize)

\* The files of NumOrig source tracks, of at most PermNotes notes in all;
\* processMidi is about to be called with one of them, midi.
PermNotes == 3

InitGiven ==
  /\ pc = "start"
  /\ \E n \in 0..PermNotes : \E flat \in [1..n -> InNote] : \E c \in Cuts(n) :
       midi = MidiOf(flat, c)
  /\ heap = <<>>
  /\ allNotes = <<>>
  /\ input = <<>>
  /\ pos = 0
  /\ origTrackToTarget = <<>>
  /\ trackState = <<>>
  /\ trackMap = <<>>
  /\ log = <<>>
  /\ last = EmptyLast

CollectGiven == Called(midi)

NextGiven == CollectGiven \/ Step \/ Finalize

SpecGiven == InitGiven /\ [][NextGiven]_vars

\* processMidi as a function of the file: the loop over the notes 1..n of
\* the sorted sequence from note i on, and the trackMap returned, each
\* track with its name and its note objects.
RECURSIVE RunFrom(_, _, _)
RunFrom(st, n, i) ==
  IF i > n THEN st
  ELSE RunFrom(ProcessNote(st, Deref(st.heap, [k \in 1..n |-> k]), i).st,
               n, i + 1)

Returned(st) ==
  [k \in 1..Len(st.trackMap) |->
     [name |-> st.trackMap[k].name,
      notes |-> Deref(st.heap, SortTrack(st.heap, st.trackMap[k].notes))]]

OutputOf(m) ==
  LET h == CollectNotes(m)
      st == [heap |-> h,
             trackState |-> [k \in 1..Len(TRACK_NAMES) |-> <<>>],
             trackMap |-> [k \in 1..Len(TRACK_NAMES) |->
                             [name |-> TRACK_NAMES[k], notes |-> <<>>]],
             origTrackToTarget |-> <<>>]
  IN Returned(RunFrom(st, Len(h), 1))

\* ======================================================== the properties
\* The output tracks by index, 0 = Main Theme, 1 = Chord, 2 = Base.
TrackIdx == 0..(Len(TRACK_NAMES) - 1)

\* The allocation loop has started (the per-track structures exist).
Running == pc \in {"loop", "done"}

\* The last transition processed a note.
Stepped == last.outcome \in {"fast", "verbatim", "truncNew", "truncOld", "drop"}

\* Two notes do not overlap by more than the tolerance.
Apart(a, b) == a.endTime <= b.time + Eps \/ a.time >= b.endTime - Eps

PairwiseApart(notes) ==
  \A i, j \in 1..Len(notes) : i # j => Apart(notes[i], notes[j])

\* The note of the last step as it was when the step began, and the notes
\* track idx held then.
LastNote == last.pre.heap[last.ref]
PreNotes(idx) == Deref(last.pre.heap, last.pre.trackState[idx + 1])
NowNotes(idx) == Deref(heap, trackState[idx + 1])

\* Track idx held a note overlapping the note of the last step.
PreBusy(idx) ==
  \E k \in 1..Len(PreNotes(idx)) : ~Apart(LastNote, PreNotes(idx)[k])

\* The first note of track idx that overlapped the note of the last step.
PreFirstBusy(idx) ==
  PreNotes(idx)[Min({k \in 1..Len(PreNotes(idx)) :
                       ~Apart(LastNote, PreNotes(idx)[k])})]

\* C1: on every output track, in trackState and in the returned trackMap,
\* any two distinct notes are apart: a.end <= b.start + eps or
\* a.start >= b.end - eps, after every step and in the final output.
OverlapFree ==
  Running =>
    \A idx \in TrackIdx :
      /\ PairwiseApart(Deref(heap, trackState[idx + 1]))
      /\ PairwiseApart(Deref(heap, trackMap[idx + 1].notes))

\* A step has shortened a placed note and put the incoming note behind it.
OverlapFreeWitness ==
  /\ last.outcome = "truncOld"
  /\ Len(trackState[last.idx + 1]) >= 2

\* Scenario D: the note 1.0-3.0 s arrives, its origin has affinity to a
\* track holding a note 0.0-2.0 s, and both other tracks hold a note that
\* overlaps it.
ScenarioDCase ==
  /\ Stepped
  /\ last.preferIdx # -1
  /\ LastNote.time = 1000000 /\ LastNote.endTime = 3000000
  /\ \E k \in 1..Len(PreNotes(last.preferIdx)) :
       /\ PreNotes(last.preferIdx)[k].time = 0
       /\ PreNotes(last.preferIdx)[k].endTime = 2000000
  /\ \A idx \in TrackIdx \ {last.preferIdx} : PreBusy(idx)

CanShortenOn(idx) ==
  /\ PreBusy(idx)
  /\ PreFirstBusy(idx).time < LastNote.time - Eps
  /\ PreFirstBusy(idx).endTime > LastNote.endTime + Eps
  /\ LastNote.time - PreFirstBusy(idx).time > MinDur

AllTracksBusy == Stepped /\ \A idx \in TrackIdx : PreBusy(idx)

\* C3 as stated: a note that overlaps notes on all three tracks is assigned
\* to the track with the lightest load (the fewest notes).
LeastLoadedFallback ==
  AllTracksBusy =>
    /\ last.outcome # "drop"
    /\ \A idx \in TrackIdx :
         Len(last.pre.trackState[last.idx + 1]) <= Len(last.pre.trackState[idx + 1])

\* C4: a note whose origin has affinity P and which no note on P overlaps
\* is placed on P, whole, and the other tracks are left alone; hence the
\* notes of an origin whose notes overlap no other note of the input all
\* land on one track.
AffinityFastPath ==
  /\ (Stepped /\ last.preferIdx # -1 /\ ~PreBusy(last.preferIdx)) =>
       /\ last.idx = last.preferIdx
       /\ last.placed = last.ref
       /\ trackState[last.preferIdx + 1] =
            Append(last.pre.trackState[last.preferIdx + 1], last.ref)
       /\ heap = last.pre.heap
       /\ heap[last.ref].duration = input[last.ref].duration
       /\ \A idx \in TrackIdx \ {last.preferIdx} :
            trackState[idx + 1] = last.pre.trackState[idx + 1]
       /\ origTrackToTarget = last.pre.origTrackToTarget
  /\ Running =>
       \A o \in {input[k].origTrack : k \in 1..Len(input)} :
         (\A i \in 1..Len(input) : \A j \in 1..Len(input) :
            (i # j /\ input[i].origTrack = o) => Apart(input[i], input[j]))
         => \E idx \in TrackIdx :
              \A i \in 1..Len(log) :
                input[i].origTrack = o => log[i].idx = idx

\* The fast path has placed a note on a track that holds other notes while
\* another track holds a note the incoming one would overlap.
AffinityFastPathWitness ==
  /\ last.outcome = "fast"
  /\ Len(last.pre.trackState[last.preferIdx + 1]) >= 1
  /\ \E idx \in TrackIdx \ {last.preferIdx} : PreBusy(idx)

\* The positions of the notes of origin o that were placed.
PlacedOf(o) ==
  {i \in 1..Len(log) : input[i].origTrack = o /\ log[i].outcome # "drop"}

\* C5: an affinity entry, once written, is never changed or removed; an
\* origin has an entry exactly when one of its notes has been placed, and
\* the entry is the track of the first of its notes that was placed.
AffinityImmutable ==
  /\ Stepped =>
       \A o \in DOMAIN last.pre.origTrackToTarget :
         /\ o \in DOMAIN origTrackToTarget
         /\ origTrackToTarget[o] = last.pre.origTrackToTarget[o]
  /\ pc = "done" => origTrackToTarget = last.pre.origTrackToTarget
  /\ Running =>
       /\ \A o \in 0..(NumOrig - 1) :
            o \in DOMAIN origTrackToTarget <=> PlacedOf(o) # {}
       /\ \A o \in DOMAIN origTrackToTarget :
            origTrackToTarget[o] = log[Min(PlacedOf(o))].idx

\* A note of an origin with affinity has been placed on another track.
AffinityImmutableWitness ==
  /\ Stepped
  /\ last.preferIdx # -1
  /\ last.idx # -1
  /\ last.idx # last.preferIdx

\* The position in the input of the note an object on a track comes from:
\* the object itself, or for a truncated copy the note it was copied from.
SrcOf(ref) ==
  IF ref <= Len(input) THEN ref
  ELSE CHOOSE i \in 1..Len(log) : log[i].placed = ref

\* Making room on track idx for the note of the last step would leave a
\* note no longer than the floor: a truncated copy of the incoming note, or
\* the first overlapping note shortened.
FloorBlocks(idx) ==
  /\ PreBusy(idx)
  /\ \/ /\ LastNote.time < PreFirstBusy(idx).time
        /\ LastNote.endTime > PreFirstBusy(idx).time + Eps
        /\ PreFirstBusy(idx).time - LastNote.time <= MinDur
     \/ /\ PreFirstBusy(idx).time < LastNote.time - Eps
        /\ PreFirstBusy(idx).endTime > LastNote.endTime + Eps
        /\ LastNote.time - PreFirstBusy(idx).time <= MinDur

\* C6: a note on a track that is shorter than it was in the input lasts
\* more than 0.01 s; a track on which room could only be made by leaving a
\* note of 0.01 s or less does not receive the note and keeps its contents.
TruncationFloor ==
  /\ Running =>
       \A idx \in TrackIdx : \A k \in 1..Len(trackState[idx + 1]) :
         LET ref == trackState[idx + 1][k] IN
           heap[ref].duration < input[SrcOf(ref)].duration
             => heap[ref].duration > MinDur
  /\ Stepped =>
       \A idx \in TrackIdx :
         FloorBlocks(idx) =>
           /\ last.idx # idx
           /\ trackState[idx + 1] = last.pre.trackState[idx + 1]
           /\ trackMap[idx + 1] = last.pre.trackMap[idx + 1]
           /\ NowNotes(idx) = PreNotes(idx)

\* A note was dropped after the scan met a track where the floor forbade
\* the shortening.
TruncationFloorWitness ==
  /\ last.outcome = "drop"
  /\ \E idx \in TrackIdx \ {last.preferIdx} : FloorBlocks(idx)

\* The references held by all three lists of trackState, one after another.
AllPlacedRefs == trackState[1] \o trackState[2] \o trackState[3]

\* The positions of the notes that were dropped.
Dropped == {i \in 1..Len(log) : log[i].outcome = "drop"}

\* C7: every input note is on at most one track, at most once; the tracks
\* hold as many notes as were placed, never more than the input has, and
\* at the end as many as the input exactly when no note was dropped.
CountBound ==
  Running =>
    /\ Len(AllPlacedRefs) <= Len(input)
    /\ Len(AllPlacedRefs) = Len(log) - Cardinality(Dropped)
    /\ \A i, j \in 1..Len(AllPlacedRefs) :
         i # j => SrcOf(AllPlacedRefs[i]) # SrcOf(AllPlacedRefs[j])
    /\ Len(trackMap[1].notes) + Len(trackMap[2].notes) + Len(trackMap[3].notes)
         = Len(AllPlacedRefs)
    /\ pc = "done" => (Len(AllPlacedRefs) = Len(input) <=> Dropped = {})

\* A run has ended with all three tracks in use and a note dropped.
CountBoundWitness ==
  /\ pc = "done"
  /\ Dropped # {}
  /\ \A idx \in TrackIdx : Len(trackState[idx + 1]) >= 1

\* The start times of a list of notes never decrease.
TimeSorted(notes) ==
  \A i \in 1..(Len(notes) - 1) : notes[i].time <= notes[i + 1].time

\* C8: the result is the three tracks Main Theme, Chord, Base in this
\* order; after every step each track's notes are in non-decreasing start
\* order, and the final sort leaves every track as it was.
TimeOrdered ==
  /\ Running =>
       /\ [k \in 1..Len(trackMap) |-> trackMap[k].name]
            = <<"Main Theme", "Chord", "Base">>
       /\ \A idx \in TrackIdx :
            /\ TimeSorted(Deref(heap, trackMap[idx + 1].notes))
            /\ TimeSorted(Deref(heap, trackState[idx + 1]))
  /\ pc = "done" => trackMap = last.pre.trackMap

\* The final sort has run on a track holding notes of different start times.
TimeOrderedWitness ==
  /\ pc = "done"
  /\ \E idx \in TrackIdx : \E i, j \in 1..Len(trackMap[idx + 1].notes) :
       heap[trackMap[idx + 1].notes[i]].time
         < heap[trackMap[idx + 1].notes[j]].time

\* Scenario A: the input is two notes of one origin track with the same
\* start and duration and different pitches.
ScenarioACase ==
  /\ pc = "done"
  /\ Len(input) = 2
  /\ input[1].origTrack = input[2].origTrack
  /\ input[1].time = input[2].time
  /\ input[1].duration = input[2].duration
  /\ input[1].midi # input[2].midi

\* C9: in Scenario A both notes are kept whole, the higher one on Main
\* Theme and the lower one on Chord.
ScenarioA ==
  ScenarioACase =>
    LET hi == CHOOSE i \in 1..2 : \A j \in 1..2 : input[i].midi >= input[j].midi
        lo == 3 - hi
    IN /\ trackState = <<<<hi>>, <<lo>>, <<>>>>
       /\ [k \in 1..3 |-> trackMap[k].notes] = <<<<hi>>, <<lo>>, <<>>>>
       /\ heap = input

ScenarioAWitness == ScenarioACase /\ Len(trackState[2]) = 1

\* Scenario C: the input is two notes with the same start and duration
\* from two different origin tracks.
ScenarioCCase ==
  /\ pc = "done"
  /\ Len(input) = 2
  /\ input[1].origTrack # input[2].origTrack
  /\ input[1].time = input[2].time
  /\ input[1].duration = input[2].duration

\* C10: in Scenario C both notes are kept whole on two different tracks
\* and each origin's affinity is the track its note is on.
ScenarioC ==
  ScenarioCCase =>
    /\ \A i \in 1..2 :
         /\ log[i].outcome # "drop"
         /\ log[i].placed = i
         /\ \E k \in 1..Len(trackState[log[i].idx + 1]) :
              trackState[log[i].idx + 1][k] = i
         /\ input[i].origTrack \in DOMAIN origTrackToTarget
         /\ origTrackToTarget[input[i].origTrack] = log[i].idx
    /\ log[1].idx # log[2].idx
    /\ Len(AllPlacedRefs) = 2
    /\ heap = input

ScenarioCWitness == ScenarioCCase /\ log[2].outcome = "verbatim"

\* C11: a note is dropped only when each of the three tracks held a note
\* overlapping it, and a note that some track had room for is placed; a
\* dropped note leaves the note objects, both per-track structures and the
\* affinity map exactly as they were.
DropOnlyWhenBusy ==
  Stepped =>
    /\ last.outcome = "drop" => \A idx \in TrackIdx : PreBusy(idx)
    /\ (\E idx \in TrackIdx : ~PreBusy(idx)) =>
         /\ last.outcome # "drop"
         /\ last.idx \in TrackIdx
         /\ Len(trackState[last.idx + 1])
              = Len(last.pre.trackState[last.idx + 1]) + 1
    /\ last.outcome = "drop" =>
         /\ heap = last.pre.heap
         /\ trackState = last.pre.trackState
         /\ trackMap = last.pre.trackMap
         /\ origTrackToTarget = last.pre.origTrackToTarget

\* A note whose origin has an affinity was dropped, every origin track
\* of the file having an affinity by then.
DropOnlyWhenBusyWitness ==
  /\ last.outcome = "drop"
  /\ last.preferIdx # -1
  /\ Cardinality(DOMAIN origTrackToTarget) = NumOrig

\* C12: every note on an output track comes from an input note of its own,
\* with that note's pitch, start, velocity and origin track and a duration
\* equal to or shorter than the input's, and ends at start + duration.
ContentPreserved ==
  Running =>
    /\ \A i \in 1..Len(AllPlacedRefs) :
         LET out == heap[AllPlacedRefs[i]]
             src == input[SrcOf(AllPlacedRefs[i])]
         IN /\ out.midi = src.midi
            /\ out.time = src.time
            /\ out.velocity = src.velocity
            /\ out.origTrack = src.origTrack
            /\ out.duration <= src.duration
            /\ out.duration > 0
            /\ out.endTime = out.time + out.duration
    /\ \A i, j \in 1..Len(AllPlacedRefs) :
         i # j => SrcOf(AllPlacedRefs[i]) # SrcOf(AllPlacedRefs[j])
    /\ \A idx \in TrackIdx :
         Deref(heap, trackMap[idx + 1].notes) = NowNotes(idx)

\* A track holds a note shorter than it was in the input.
ContentPreservedWitness ==
  /\ Running
  /\ \E i \in 1..Len(AllPlacedRefs) :
       heap[AllPlacedRefs[i]].duration
         < input[SrcOf(AllPlacedRefs[i])].duration

\* The number of places on the three tracks that hold the object ref.
TimesPlaced(ref) ==
  Cardinality({<<t, k>> \in (1..Len(trackState)) \X (1..Len(heap)) :
                 k <= Len(trackState[t]) /\ trackState[t][k] = ref})

\* The run is over, every note of the sorted sequence has been processed
\* once, and each is on exactly one track or was dropped and is on none.
Finished ==
  /\ pc = "done"
  /\ pos = Len(allNotes) + 1
  /\ Len(log) = Len(allNotes)
  /\ \A i \in 1..Len(log) :
       IF log[i].outcome = "drop"
         THEN log[i].placed = 0 /\ TimesPlaced(allNotes[i]) = 0
         ELSE /\ log[i].idx \in TrackIdx
              /\ TimesPlaced(log[i].placed) = 1
              /\ \E k \in 1..Len(trackState[log[i].idx + 1]) :
                   trackState[log[i].idx + 1][k] = log[i].placed
              /\ log[i].placed # allNotes[i] => TimesPlaced(allNotes[i]) = 0

\* C13: for every input the allocation pass, once begun, comes to its end,
\* with every note of the sorted sequence processed exactly once and either
\* placed on exactly one track or dropped: no run stays for ever short of
\* such an end.
AlwaysFinishes == []<>(pc = "start" \/ Finished)

\* A run has ended in which notes were placed and a note was dropped.
AlwaysFinishesWitness ==
  /\ Finished
  /\ Len(allNotes) = OneTrackNotes
  /\ \E i \in 1..Len(log) : log[i].outcome = "drop"

\* The files that hold, track by track, the notes of the file m in another
\* order, and those among them that keep, within each track, the order of
\* the notes that have the same start and the same pitch.
Reordered(notes, p) == [k \in 1..Len(notes) |-> notes[p[k]]]

Reorderings(m) ==
  LET P(t) == Permutations(1..Len(m[t].notes))
  IN {[t \in 1..Len(m) |-> [notes |-> Reordered(m[t].notes, ps[t])]] :
        ps \in {f \in [1..Len(m) -> UNION {P(t) : t \in 1..Len(m)}] :
                  \A t \in 1..Len(m) : f[t] \in P(t)}}

SameOrderOfTies(a, b) ==
  \A t \in 1..Len(a) : \A time \in {s[1] : s \in Spans} : \A p \in Pitches :
    LET Tied(notes) == {k \in 1..Len(notes) :
                          notes[k].time = time /\ notes[k].midi = p}
    IN FilterPos(a[t].notes, Tied(a[t].notes), 1)
         = FilterPos(b[t].notes, Tied(b[t].notes), 1)

\* The trackMap the run has returned.
ReturnedNow == Returned(AllocState)

\* C14 as stated: the output does not depend on the order in which the
\* notes of the source tracks are supplied.
PermutationInvariantAsClaimed ==
  pc = "done" => \A m \in Reorderings(midi) : OutputOf(m) = ReturnedNow

\* C14: the output does not depend on the order in which the notes of the
\* source tracks are supplied, as long as the notes of a track that have the
\* same start and the same pitch are supplied in the same order.
PermutationInvariant ==
  pc = "done" =>
    \A m \in Reorderings(midi) :
      SameOrderOfTies(m, midi) => OutputOf(m) = ReturnedNow

\* A run has ended on a file of which another order, with the ties kept,
\* puts a later note first, and the notes came to lie on two tracks at least.
PermutationInvariantWitness ==
  /\ pc = "done"
  /\ Len(allNotes) = PermNotes
  /\ Cardinality({k \in 1..Len(trackMap) : trackMap[k].notes # <<>>}) >= 2
  /\ \E m \in Reorderings(midi) :
       /\ m # midi
       /\ SameOrderOfTies(m, midi)
       /\ FlatMap(m, 1) # FlatMap(midi, 1)
       /\ OutputOf(m) = ReturnedNow

\* C15: the notes are processed in ascending start time, notes of equal
\* start in descending pitch, one after the other as allNotes lists them;
\* so when a note is processed every note already on a track starts no
\* later than it does.
ProcessingOrder ==
  Running =>
    /\ \A i, j \in 1..Len(input) :
         i < j => \/ input[i].time < input[j].time
                  \/ input[i].time = input[j].time
                       /\ input[i].midi >= input[j].midi
    /\ \A i \in 1..Len(allNotes) : allNotes[i] = i
    /\ Stepped =>
         /\ last.ref = allNotes[pos - 1]
         /\ Len(log) = pos - 1
         /\ \A idx \in TrackIdx : \A k \in 1..Len(PreNotes(idx)) :
              PreNotes(idx)[k].time <= LastNote.time

\* A note was processed after a note of the same start and higher pitch and
\* after a note of an earlier start, both on tracks by then.
ProcessingOrderWitness ==
  /\ Stepped
  /\ \E idx \in TrackIdx : \E k \in 1..Len(PreNotes(idx)) :
       /\ PreNotes(idx)[k].time = LastNote.time
       /\ PreNotes(idx)[k].midi > LastNote.midi
  /\ \E idx \in TrackIdx : \E k \in 1..Len(PreNotes(idx)) :
       PreNotes(idx)[k].time < LastNote.time

\* The note of the last step has the highest pitch among the notes of the
\* input that start exactly when it does.
LastNoteIsTop ==
  \A k \in 1..Len(input) :
    input[k].time = LastNote.time => input[k].midi <= LastNote.midi

\* C16: for a note whose origin has no affinity the tracks are ranked Main
\* Theme, Chord, Base when its pitch is the highest among the input notes of
\* exactly its start, and Chord, Main Theme, Base otherwise, never with Base
\* first; for a note whose origin has affinity P they are ranked P, then the
\* other two in role order.
CandidateRanking ==
  Stepped =>
    /\ last.preferIdx = (IF LastNote.origTrack \in DOMAIN last.pre.origTrackToTarget
                           THEN last.pre.origTrackToTarget[LastNote.origTrack]
                           ELSE -1)
    /\ last.preferIdx = -1 =>
         /\ last.tryOrder[1] # "Base"
         /\ last.tryOrder = (IF LastNoteIsTop
                               THEN <<"Main Theme", "Chord", "Base">>
                               ELSE <<"Chord", "Main Theme", "Base">>)
    /\ last.preferIdx # -1 =>
         /\ last.preferIdx \in TrackIdx
         /\ last.tryOrder =
              (CASE last.preferIdx = 0 -> <<"Main Theme", "Chord", "Base">>
                 [] last.preferIdx = 1 -> <<"Chord", "Main Theme", "Base">>
                 [] last.preferIdx = 2 -> <<"Base", "Main Theme", "Chord">>)

\* A note of an origin without affinity that is the lowest but not the
\* highest of its start was ranked, when another origin had its affinity.
CandidateRankingWitness ==
  /\ Stepped
  /\ last.preferIdx = -1
  /\ ~LastNoteIsTop
  /\ \A k \in 1..Len(input) :
       input[k].time = LastNote.time => input[k].midi >= LastNote.midi
  /\ DOMAIN last.pre.origTrackToTarget # {}

\* C17: a note whose origin has affinity P and which overlaps a note on P
\* is never placed on P, and no note of P is shortened in that step: the
\* note lands on another track, as it is or after a note there has been
\* shortened, or is dropped.
PreferredNotTruncated ==
  (Stepped /\ last.preferIdx # -1 /\ PreBusy(last.preferIdx)) =>
    /\ last.idx # last.preferIdx
    /\ trackState[last.preferIdx + 1] = last.pre.trackState[last.preferIdx + 1]
    /\ NowNotes(last.preferIdx) = PreNotes(last.preferIdx)
    /\ trackMap[last.preferIdx + 1] = last.pre.trackMap[last.preferIdx + 1]
    /\ last.outcome \in {"verbatim", "truncOld", "drop"}
    /\ last.outcome # "drop" => last.idx \in TrackIdx \ {last.preferIdx}

\* A note was dropped although the first overlapping note of its preferred
\* track could have been shortened to make room for it.
PreferredNotTruncatedWitness ==
  /\ Stepped
  /\ last.preferIdx # -1
  /\ CanShortenOn(last.preferIdx)
  /\ last.outcome = "drop"

\* C18: a note o on a track is shortened only as the first note of that
\* track overlapping the incoming note n, when o starts more than the
\* tolerance and more than the floor before n and ends more than the
\* tolerance after n's end; then o ends where n starts, o.duration is the
\* time from o's start to n's, n is pushed on that track as it came, and
\* every other note and every other track is as before.  No note is
\* shortened twice: the shortened note still had its input duration.
TruncateExisting ==
  Stepped =>
    /\ (last.shortened # 0) <=> (last.outcome = "truncOld")
    /\ \A ref \in 1..Len(last.pre.heap) :
         ref # last.shortened => heap[ref] = last.pre.heap[ref]
    /\ last.outcome = "truncOld" =>
         LET o == last.pre.heap[last.shortened]
             n == LastNote
             hits == {k \in 1..Len(PreNotes(last.idx)) :
                        ~Apart(n, PreNotes(last.idx)[k])}
         IN /\ last.idx \in TrackIdx
            /\ hits # {}
            /\ last.pre.trackState[last.idx + 1][Min(hits)] = last.shortened
            /\ o.time < n.time - Eps
            /\ o.endTime > n.endTime + Eps
            /\ n.time - o.time > MinDur
            /\ heap[last.shortened] = [o EXCEPT !.endTime = n.time,
                                               !.duration = n.time - o.time]
            /\ heap[last.shortened].time = input[last.shortened].time
            /\ o = input[last.shortened]
            /\ last.placed = last.ref
            /\ heap[last.ref] = input[last.ref]
            /\ \A idx \in TrackIdx :
                 trackState[idx + 1] =
                   (IF idx = last.idx
                      THEN Append(last.pre.trackState[idx + 1], last.ref)
                      ELSE last.pre.trackState[idx + 1])

\* A note was shortened on a track that was not the first one tried, while
\* the tracks held other notes that stayed as they were.
TruncateExistingWitness ==
  /\ last.outcome = "truncOld"
  /\ last.idx # IndexOf(TRACK_NAMES, last.tryOrder[1])
  /\ Len(AllPlacedRefs) >= 4

\* C19: the truncate-incoming branch is never taken: a note being processed
\* starts no earlier than any note on a track, no truncated copy of a note
\* is ever made, every placed note is the input object itself with its
\* input duration when it is placed, and only notes placed at an earlier
\* step differ from the input.
NeverTruncateIncoming ==
  Running =>
    /\ Len(heap) = Len(input)
    /\ \A i \in 1..Len(log) :
         /\ log[i].outcome # "truncNew"
         /\ log[i].outcome # "drop" => log[i].placed = allNotes[i]
    /\ \A i \in 1..Len(input) :
         heap[i] # input[i] => i < pos - 1 /\ log[i].outcome # "drop"
    /\ Stepped =>
         /\ \A idx \in TrackIdx : \A k \in 1..Len(PreNotes(idx)) :
              ~TruncateNewCond(LastNote, PreNotes(idx)[k])
         /\ LastNote = input[last.ref]
         /\ heap[last.ref] = input[last.ref]

\* A note was processed that overlapped, on the first track tried, a note
\* of the same start: the branch was reached and not taken, and the note
\* went to another track as it came.
NeverTruncateIncomingWitness ==
  /\ Stepped
  /\ last.outcome = "verbatim"
  /\ PreBusy(IndexOf(TRACK_NAMES, last.tryOrder[1]))
  /\ PreFirstBusy(IndexOf(TRACK_NAMES, last.tryOrder[1])).time = LastNote.time
  /\ last.preferIdx = -1

\* C20: once the loop has begun, and in the map returned, the list of
\* trackState at each index and the list of trackMap under the name of that
\* index hold the same note objects in the same order, so a note that was
\* shortened in place is the shortened note in trackMap too.
Lockstep ==
  Running =>
    /\ Len(trackState) = Len(TRACK_NAMES)
    /\ Len(trackMap) = Len(TRACK_NAMES)
    /\ \A k \in 1..Len(TRACK_NAMES) :
         /\ trackMap[k].name = TRACK_NAMES[k]
         /\ trackMap[k].notes = trackState[k]
    /\ last.outcome = "truncOld" =>
         \E j \in 1..Len(trackMap[last.idx + 1].notes) :
           /\ trackMap[last.idx + 1].notes[j] = last.shortened
           /\ heap[trackMap[last.idx + 1].notes[j]].endTime = LastNote.time

\* The map has been returned with a shortened note and the note that
\* displaced it on one of its lists.
LockstepWitness ==
  /\ pc = "done"
  /\ \E k \in 1..Len(trackMap) : \E i, j \in 1..Len(trackMap[k].notes) :
       /\ i < j
       /\ heap[trackMap[k].notes[i]].duration
            < input[trackMap[k].notes[i]].duration
       /\ heap[trackMap[k].notes[j]].time = heap[trackMap[k].notes[i]].endTime
====
